---------------------------- MODULE Spec2Model ----------------------------
(***************************************************************************)
(* Model of pdagent.py (PREDICTIVE SUMMARIZER): the duration codec         *)
(* time_to_seconds / seconds_to_time, the merge pipeline                   *)
(* merge_excel_files, and the script, which Streamlit runs from the top    *)
(* each time the uploaded files change.                                    *)
(*                                                                         *)
(* Text is a sequence of one-character strings, so that split, strip,      *)
(* int() and the ordering of keys are computed character by character.     *)
(* A cell is a record [k, s, n, d]: k = "nan" (empty cell, NaN/None),      *)
(* k = "str" (text s), k = "num" (the number n/d; d = 1 for every number   *)
(* read from a file, d > 1 only for a mean or a fraction of a day),        *)
(* k = "obj" (any other Python object, e.g. a datetime.time).              *)
(***************************************************************************)
EXTENDS Integers, Sequences, FiniteSets, TLC

VARIABLES pc, uploaded_files, merged_df, error, preview, export,
          cpc, time_val, given, seconds, text, seconds2

vars == <<pc, uploaded_files, merged_df, error, preview, export,
          cpc, time_val, given, seconds, text, seconds2>>

mergeVars == <<pc, uploaded_files, merged_df, error, preview, export>>

codecVars == <<cpc, time_val, given, seconds, text, seconds2>>

(***************************************************************************)
(* Bounds of the model.                                                    *)
(***************************************************************************)
MaxFiles == 2

MaxRows == 2

MaxParts == 4

(***************************************************************************)
(* Cells and text.                                                         *)
(***************************************************************************)
Nan == [k |-> "nan", s |-> <<>>, n |-> 0, d |-> 1]

Str(t) == [k |-> "str", s |-> t, n |-> 0, d |-> 1]

Num(x) == [k |-> "num", s |-> <<>>, n |-> x, d |-> 1]

Frac(x, y) == [k |-> "num", s |-> <<>>, n |-> x, d |-> y]

Obj == [k |-> "obj", s |-> <<>>, n |-> 0, d |-> 1]

None == [k |-> "None"]

Digits == <<"0", "1", "2", "3", "4", "5", "6", "7", "8", "9">>

IsDigit(c) == \E i \in 1..10 : Digits[i] = c

DigitVal(c) == (CHOOSE i \in 1..10 : Digits[i] = c) - 1

\* Code points of the characters the model's texts are made of.
Ord(c) ==
  CASE c = " " -> 32
    [] c = "+" -> 43
    [] c = "-" -> 45
    [] IsDigit(c) -> 48 + DigitVal(c)
    [] c = ":" -> 58
    [] c = "a" -> 97
    [] c = "b" -> 98
    [] c = "p" -> 112
    [] c = "q" -> 113
    [] c = "x" -> 120
    [] OTHER -> 127

\* str.strip(): leading and trailing whitespace removed.
RECURSIVE lstrip(_)
lstrip(t) == IF t # <<>> /\ t[1] = " " THEN lstrip(Tail(t)) ELSE t

RECURSIVE rstrip(_)
rstrip(t) ==
  IF t # <<>> /\ t[Len(t)] = " " THEN rstrip(SubSeq(t, 1, Len(t) - 1)) ELSE t

strip(t) == rstrip(lstrip(t))

\* str.split(':'): the list of the parts between colons, at least one part.
RECURSIVE split(_)
split(t) ==
  IF \A i \in 1..Len(t) : t[i] # ":"
  THEN <<t>>
  ELSE LET i == CHOOSE j \in 1..Len(t) :
                  t[j] = ":" /\ \A h \in 1..(j - 1) : t[h] # ":"
       IN <<SubSeq(t, 1, i - 1)>> \o split(SubSeq(t, i + 1, Len(t)))

RECURSIVE DigitsVal(_)
DigitsVal(t) ==
  IF t = <<>> THEN 0
  ELSE 10 * DigitsVal(SubSeq(t, 1, Len(t) - 1)) + DigitVal(t[Len(t)])

\* int(text): optional sign, then one or more decimal digits; anything else
\* raises ValueError (exc).
py_int(t) ==
  LET u == strip(t)
      signed == u # <<>> /\ u[1] \in {"+", "-"}
      body == IF signed THEN Tail(u) ELSE u
  IN IF body # <<>> /\ \A i \in 1..Len(body) : IsDigit(body[i])
     THEN [exc |-> FALSE,
           ret |-> IF signed /\ u[1] = "-" THEN 0 - DigitsVal(body)
                   ELSE DigitsVal(body)]
     ELSE [exc |-> TRUE, ret |-> 0]

\* str(int): decimal digits, with a minus sign for a negative number.
RECURSIVE NatToStr(_)
NatToStr(x) ==
  IF x < 10 THEN <<Digits[x + 1]>>
  ELSE NatToStr(x \div 10) \o <<Digits[(x % 10) + 1]>>

IntToStr(x) == IF x < 0 THEN <<"-">> \o NatToStr(0 - x) ELSE NatToStr(x)

\* format(x, "02d") for 0 <= x.
Pad2(x) == IF x < 10 THEN <<"0">> \o NatToStr(x) ELSE NatToStr(x)

\* int(x) of a number n/d: truncation toward zero.
Trunc(c) == IF c.n >= 0 THEN c.n \div c.d ELSE 0 - ((0 - c.n) \div c.d)

(***************************************************************************)
(* time_to_seconds, lines 29-46.  The result is the outcome of the call:   *)
(* exc = TRUE when an exception leaves the function, else ret is the       *)
(* returned number of seconds.                                             *)
(***************************************************************************)
\* The body of the try block, lines 31-44.
time_to_seconds_try(v) ==
  IF v.k = "nan" THEN [exc |-> FALSE, ret |-> 0]
  ELSE IF v.k = "num" THEN [exc |-> FALSE, ret |-> v.n]
  ELSE IF v.k = "str" THEN
    LET parts == [i \in 1..Len(split(v.s)) |-> strip(split(v.s)[i])]
        p(i) == py_int(parts[i])
    IN IF Len(parts) = 3
       THEN IF p(1).exc \/ p(2).exc \/ p(3).exc
            THEN [exc |-> TRUE, ret |-> 0]
            ELSE [exc |-> FALSE,
                  ret |-> p(1).ret * 3600 + p(2).ret * 60 + p(3).ret]
       ELSE IF Len(parts) = 2
       THEN IF p(1).exc \/ p(2).exc
            THEN [exc |-> TRUE, ret |-> 0]
            ELSE [exc |-> FALSE, ret |-> p(1).ret * 60 + p(2).ret]
       ELSE [exc |-> FALSE, ret |-> 0]
  ELSE [exc |-> FALSE, ret |-> 0]

time_to_seconds_noexcept(v) == time_to_seconds_try(v)

\* Lines 29-46: the bare except turns every exception into 0.
time_to_seconds(v) ==
  LET r == time_to_seconds_try(v)
  IN IF r.exc THEN [exc |-> FALSE, ret |-> 0] ELSE r

(***************************************************************************)
(* seconds_to_time, lines 49-57.                                           *)
(***************************************************************************)
seconds_to_time_wrap24(c) ==
  IF c.k = "nan" THEN <<"0", ":", "0", "0", ":", "0", "0">>
  ELSE LET sec == Trunc(c)
           hours == (sec \div 3600) % 24
           rest == sec % 3600
       IN IntToStr(hours) \o <<":">> \o Pad2(rest \div 60)
            \o <<":">> \o Pad2(rest % 60)

seconds_to_time(c) ==
  IF c.k = "nan" THEN <<"0", ":", "0", "0", ":", "0", "0">>
  ELSE LET sec == Trunc(c)
           hours == sec \div 3600
           rest == sec % 3600
       IN IntToStr(hours) \o <<":">> \o Pad2(rest \div 60)
            \o <<":">> \o Pad2(rest % 60)

(***************************************************************************)
(* Datasets.  A dataset (DataFrame) is [columns, rows]: the column names   *)
(* in order and the rows in order, a row being a function from the column  *)
(* names to cells.  An uploaded file is a dataset with a flag readable:    *)
(* pd.read_excel raises on a file that is not readable.                    *)
(***************************************************************************)
Range(q) == {q[i] : i \in 1..Len(q)}

\* The function f with every value computed: TLC computes a function
\* [x \in S |-> e] anew at each application unless it is combined.
Computed(f) == f @@ <<>>

DataFrame(cols, rows) ==
  [columns |-> cols,
   rows |-> Computed([i \in 1..Len(rows) |-> Computed(rows[i])])]

\* What a call of merge_excel_files ends with: the pair it returns, or an
\* exception that leaves the function (exc).
Outcome(df, err) == [exc |-> FALSE, df |-> df, err |-> err]

Raised == [exc |-> TRUE, df |-> None, err |-> None]

Message(m) == [msg |-> m]

CollectorName == "Collector Name"

Average == <<"A", "v", "e", "r", "a", "g", "e">>

columns_to_drop == <<"SNo.", "Total Calls", "Pause Count">>

time_columns ==
  <<"Spent Time", "Talk Time", "AVG Talk Time", "Wait Time",
    "Average Wait Time", "Write Time", "AVG Write Time", "Pause Time">>

\* pd.concat(dfs, ignore_index=True), line 79: the union of the columns in
\* order of first appearance, the rows of the frames in order, an absent
\* column filled with NaN.
RECURSIVE concat_columns(_)
concat_columns(dfs) ==
  IF dfs = <<>> THEN <<>>
  ELSE LET before == concat_columns(SubSeq(dfs, 1, Len(dfs) - 1))
           last == dfs[Len(dfs)].columns
       IN before \o SelectSeq(last, LAMBDA c : c \notin Range(before))

RECURSIVE concat_rows(_, _)
concat_rows(dfs, cols) ==
  IF dfs = <<>> THEN <<>>
  ELSE [i \in 1..Len(dfs[1].rows) |->
          [c \in Range(cols) |->
             IF c \in Range(dfs[1].columns) THEN dfs[1].rows[i][c] ELSE Nan]]
       \o concat_rows(Tail(dfs), cols)

concat(dfs) ==
  DataFrame(concat_columns(dfs), concat_rows(dfs, concat_columns(dfs)))

\* DataFrame.drop(columns=...), lines 82-83.
drop(df, dropped) ==
  LET cols == SelectSeq(df.columns, LAMBDA c : c \notin dropped)
  IN DataFrame(cols,
               [i \in 1..Len(df.rows) |-> [c \in Range(cols) |-> df.rows[i][c]]])

\* The dtype pandas gives the concatenated Collector Name column: object
\* when it holds a text, float64 when it holds NaN only.  A frame that has
\* the column but no rows carries an empty object column; whether such a
\* frame counts (ignore_empty = FALSE) or not depends on the pandas version.
concat_dtype(dfs, df, ignore_empty) ==
  IF \E i \in 1..Len(df.rows) : df.rows[i][CollectorName].k = "str"
    THEN "object"
  ELSE IF df.rows = <<>> THEN "object"
  ELSE IF ~ignore_empty /\ \E i \in 1..Len(dfs) :
             CollectorName \in Range(dfs[i].columns) /\ dfs[i].rows = <<>>
    THEN "object"
  ELSE "float64"

not_blank_nan_kept(v) == v.k = "str" => strip(v.s) # <<>>

\* The mask of line 87 for one row: notna() & (str.strip() != '').
\* str.strip() of a NaN is NaN, and NaN != '' is True.
not_blank(v) == v.k # "nan" /\ (v.k = "str" => strip(v.s) # <<>>)

\* Lexicographic order of texts by code point, the order of sorted keys.
RECURSIVE LexLess(_, _)
LexLess(a, b) ==
  IF a = <<>> THEN b # <<>>
  ELSE IF b = <<>> THEN FALSE
  ELSE IF a[1] = b[1] THEN LexLess(Tail(a), Tail(b))
  ELSE Ord(a[1]) < Ord(b[1])

RECURSIVE SortKeys(_)
SortKeys(S) ==
  IF S = {} THEN <<>>
  ELSE LET m == CHOOSE x \in S : \A y \in S : x = y \/ LexLess(x, y)
       IN <<m>> \o SortKeys(S \ {m})

\* The keys in order of first appearance (what sort=False would give).
RECURSIVE FirstSeenKeys(_)
FirstSeenKeys(rows) ==
  IF rows = <<>> THEN <<>>
  ELSE LET before == FirstSeenKeys(SubSeq(rows, 1, Len(rows) - 1))
           key == rows[Len(rows)][CollectorName].s
       IN IF key \in Range(before) THEN before ELSE Append(before, key)

groupby_keys_unsorted(rows) == FirstSeenKeys(rows)

\* DataFrame.groupby('Collector Name'), line 117: sort=True is the default,
\* the groups come in ascending order of the key.
groupby_keys(rows) ==
  SortKeys({rows[i][CollectorName].s : i \in 1..Len(rows)})

group_rows(rows, key) ==
  SelectSeq(rows, LAMBDA r : r[CollectorName].s = key)

agg_sum_first(rows, col) == IF rows = <<>> THEN 0 ELSE rows[1][col].n

\* 'sum' of a column of a group.
RECURSIVE agg_sum(_, _)
agg_sum(rows, col) ==
  IF rows = <<>> THEN 0 ELSE rows[1][col].n + agg_sum(Tail(rows), col)

\* 'first' of a column of a group: GroupBy.first skips NaN, it is the first
\* value that is not null, NaN when the group has none.
RECURSIVE agg_first(_, _)
agg_first(rows, col) ==
  IF rows = <<>> THEN Nan
  ELSE IF rows[1][col].k # "nan" THEN rows[1][col]
  ELSE agg_first(Tail(rows), col)

mean_as_sum(rows, col) ==
  IF rows = <<>> THEN Nan ELSE Frac(agg_sum(rows, col), 1)

\* Series.mean() of a summed column, line 122: NaN for no group.
mean(rows, col) ==
  IF rows = <<>> THEN Nan ELSE Frac(agg_sum(rows, col), Len(rows))

(***************************************************************************)
(* merge_excel_files, lines 60-135.                                        *)
(***************************************************************************)
\* Lines 104-130, the rows being filtered and converted already.
aggregate(df, valid_time_columns, other_columns) ==
  LET keys == groupby_keys(df.rows)
      cols == <<CollectorName>> \o valid_time_columns \o other_columns
      grouped ==
        [g \in 1..Len(keys) |->
           LET members == group_rows(df.rows, keys[g])
           IN [c \in Range(cols) |->
                 IF c = CollectorName THEN Str(keys[g])
                 ELSE IF c \in Range(valid_time_columns)
                   THEN Num(agg_sum(members, c))
                 ELSE agg_first(members, c)]]
      avg_row ==
        [c \in Range(cols) |->
           IF c = CollectorName THEN Str(Average)
           ELSE IF c \in Range(valid_time_columns) THEN mean(grouped, c)
           ELSE Nan]
  IN DataFrame(cols, Append(grouped, avg_row))

\* Lines 131-132: no file at all.
no_files == Outcome(None, Message("No valid Excel files uploaded."))

nothing_to_aggregate_no_time(valid_time_columns, other_columns) ==
  valid_time_columns = <<>>

\* Lines 105-115: agg_dict has an entry for every time column and every
\* other column; it is empty when Collector Name is the only column.
nothing_to_aggregate(valid_time_columns, other_columns) ==
  valid_time_columns \o other_columns = <<>>

\* The body of the try block, lines 62-132.
merge_excel_files_try(files, ignore_empty) ==
  IF \E i \in 1..Len(files) : ~files[i].readable THEN Raised
  ELSE IF files = <<>> THEN no_files
  ELSE
    LET dfs == Computed([i \in 1..Len(files) |->
                           DataFrame(files[i].columns, files[i].rows)])
        dropped == drop(concat(dfs), Range(columns_to_drop))
    IN IF CollectorName \notin Range(dropped.columns)
         THEN Outcome(None,
                      Message("Collector Name column not found in the data."))
       ELSE IF concat_dtype(dfs, dropped, ignore_empty) # "object" THEN Raised
       ELSE
         LET kept == SelectSeq(dropped.rows,
                               LAMBDA r : not_blank(r[CollectorName]))
             valid_time_columns ==
               SelectSeq(time_columns, LAMBDA c : c \in Range(dropped.columns))
             other_columns ==
               SelectSeq(dropped.columns,
                         LAMBDA c : c \notin Range(valid_time_columns)
                                      \cup {CollectorName})
             raised == \E i \in 1..Len(kept) :
                         \E c \in Range(valid_time_columns) :
                           time_to_seconds(kept[i][c]).exc
             converted ==
               [i \in 1..Len(kept) |->
                  [c \in Range(dropped.columns) |->
                     IF c \in Range(valid_time_columns)
                     THEN Num(time_to_seconds(kept[i][c]).ret)
                     ELSE kept[i][c]]]
             df == DataFrame(dropped.columns, converted)
         IN IF raised THEN Raised
            ELSE IF nothing_to_aggregate(valid_time_columns, other_columns)
              THEN Outcome(df, None)
            ELSE Outcome(aggregate(df, valid_time_columns, other_columns),
                         None)

merge_excel_files_uncaught(files, ignore_empty) ==
  merge_excel_files_try(files, ignore_empty)

\* Lines 60-135: the except clause of line 134 turns every exception into
\* the error "Error merging files: ...".
merge_excel_files(files, ignore_empty) ==
  LET r == merge_excel_files_try(files, ignore_empty)
  IN IF r.exc THEN Outcome(None, Message("Error merging files")) ELSE r

(***************************************************************************)
(* The script, lines 137-214.                                              *)
(***************************************************************************)
\* Lines 150-159: the time columns shown as h:mm:ss.
to_preview(df) ==
  DataFrame(df.columns,
            [i \in 1..Len(df.rows) |->
               [c \in Range(df.columns) |->
                  IF c \in Range(time_columns)
                  THEN Str(seconds_to_time(df.rows[i][c]))
                  ELSE df.rows[i][c]]])

\* Line 173: seconds as a fraction of a day; NaN stays NaN.
fraction_of_day(v) == IF v.k = "num" THEN Frac(v.n, v.d * 86400) ELSE v

\* Lines 171-173: the time columns as fractions of a day.
excel_df(df) ==
  DataFrame(df.columns,
            [i \in 1..Len(df.rows) |->
               [c \in Range(df.columns) |->
                  IF c \in Range(time_columns)
                  THEN fraction_of_day(df.rows[i][c])
                  ELSE df.rows[i][c]]])

\* Lines 168-201: the sheet, the columns formatted [h]:mm:ss and the
\* columns aligned to the right.
to_export(df) ==
  [sheet |-> excel_df(df),
   number_format |-> SelectSeq(time_columns, LAMBDA c : c \in Range(df.columns)),
   right |-> SelectSeq(df.columns, LAMBDA c : c # CollectorName)]

(***************************************************************************)
(* The uploads the model draws from: at most MaxFiles files with at most   *)
(* MaxRows rows in all, every file with one of the column sets Schemas or  *)
(* not readable.                                                           *)
(***************************************************************************)
IdVals == {Nan, Str(<<" ">>), Str(<<"a">>), Str(<<"b">>)}

TimeVals == {Str(<<"0", ":", "1", "0", ":", "0", "0">>), Num(90)}

TeamVals == {Nan, Str(<<"p">>)}

Schemas ==
  { <<CollectorName>>,
    <<CollectorName, "Team">>,
    <<"SNo.", CollectorName, "Talk Time">>,
    <<"Talk Time">> }

CellsOf(c) ==
  IF c = CollectorName THEN IdVals
  ELSE IF c = "Talk Time" THEN TimeVals
  ELSE IF c = "Team" THEN TeamVals
  ELSE {Num(1)}

RowsOf(cols) ==
  { r \in [Range(cols) -> IdVals \cup TimeVals \cup TeamVals \cup {Num(1)}] :
      \A c \in Range(cols) : r[c] \in CellsOf(c) }

Unreadable == [readable |-> FALSE, columns |-> <<>>, rows |-> <<>>]

NumRows(files) ==
  LET RECURSIVE Count(_)
      Count(i) == IF i = 0 THEN 0 ELSE Len(files[i].rows) + Count(i - 1)
  IN Count(Len(files))

\* A sheet with a header and no rows.
HeaderOnly == [readable |-> TRUE, columns |-> <<CollectorName, "Team">>, rows |-> <<>>]

\* The files of the model, by number of rows.
Files ==
  Computed([k \in 0..MaxRows |->
     IF k = 0 THEN {Unreadable, HeaderOnly}
     ELSE UNION { { [readable |-> TRUE, columns |-> cols, rows |-> rows] :
                      rows \in [1..k -> RowsOf(cols)] } : cols \in Schemas }])

NoOutcome == [exc |-> FALSE, ret |-> 0]

CodecIdle ==
  /\ cpc = "start"
  /\ time_val = Nan
  /\ given = <<>>
  /\ seconds = NoOutcome
  /\ text = <<>>
  /\ seconds2 = NoOutcome

\* The state after the first run of the script: nothing is uploaded, the
\* script has asked for files (lines 213-214).
MergeIdle ==
  /\ pc = "ready"
  /\ uploaded_files = <<>>
  /\ merged_df = None
  /\ error = None
  /\ preview = None
  /\ export = None

Init == MergeIdle /\ CodecIdle

\* Lines 137-214, one run of the script with the files uploaded.  With no
\* file it only asks for files (lines 213-214).  Otherwise merged_df, error =
\* merge_excel_files(uploaded_files) (line 142), then the error is shown
\* (lines 144-145) or the preview and the export are made (lines 146-211).
\* An exception that leaves merge_excel_files ends the run.
Script(files) ==
  /\ uploaded_files' = files
  /\ IF files = <<>>
     THEN /\ pc' = "ready"
          /\ merged_df' = None /\ error' = None
          /\ preview' = None /\ export' = None
     ELSE \E ignore_empty \in BOOLEAN :
            \E r \in {merge_excel_files(files, ignore_empty)} :
               /\ pc' = IF r.exc THEN "crashed" ELSE "ready"
               /\ merged_df' = r.df
               /\ error' = r.err
               /\ IF r.exc \/ r.err # None
                  THEN preview' = None /\ export' = None
                  ELSE preview' = to_preview(r.df) /\ export' = to_export(r.df)

\* Lines 17-21: the user adds a file to the uploader, and Streamlit runs
\* the script again from the top.
Upload ==
  /\ pc = "ready"
  /\ Len(uploaded_files) < MaxFiles
  /\ \E k \in 0..(MaxRows - NumRows(uploaded_files)) :
       \E file \in Files[k] : Script(Append(uploaded_files, file))
  /\ UNCHANGED codecVars

\* Lines 17-21: the user removes the files, and Streamlit runs the script
\* again from the top.
Clear ==
  /\ pc = "ready"
  /\ uploaded_files # <<>>
  /\ Script(<<>>)
  /\ UNCHANGED codecVars

Next ==
  \/ Upload
  \/ Clear

Spec == Init /\ [][Next]_vars

(***************************************************************************)
(* The uploaded rows as the claims speak of them: the position <<i, j>> is *)
(* row j of file i, positions are ordered by file and then by row, and a   *)
(* column a file does not have is empty in its rows.                       *)
(***************************************************************************)
Positions ==
  UNION { { <<i, j>> : j \in 1..Len(uploaded_files[i].rows) } :
          i \in 1..Len(uploaded_files) }

Before(p, q) == p[1] < q[1] \/ (p[1] = q[1] /\ p[2] < q[2])

InCell(p, c) ==
  IF c \in Range(uploaded_files[p[1]].columns)
  THEN uploaded_files[p[1]].rows[p[2]][c]
  ELSE Nan

HasText(v) == v.k = "str" /\ \E n \in 1..Len(v.s) : v.s[n] # " "

Named == { p \in Positions : HasText(InCell(p, CollectorName)) }

Keys == { InCell(p, CollectorName).s : p \in Named }

RowsOfKey(k) == { p \in Named : InCell(p, CollectorName).s = k }

FirstOfKey(k) ==
  CHOOSE p \in RowsOfKey(k) : \A q \in RowsOfKey(k) : q = p \/ Before(p, q)

InputColumns ==
  UNION { Range(uploaded_files[i].columns) : i \in 1..Len(uploaded_files) }

DurationColumns == InputColumns \cap Range(time_columns)

OtherColumns ==
  InputColumns \ (Range(time_columns) \cup Range(columns_to_drop)
                    \cup {CollectorName})

RECURSIVE SumSeconds(_, _)
SumSeconds(S, c) ==
  IF S = {} THEN 0
  ELSE LET p == CHOOSE q \in S : TRUE
       IN time_to_seconds(InCell(p, c)).ret + SumSeconds(S \ {p}, c)

\* merge_excel_files has returned a dataset.
Merged == merged_df # None

\* ... and it has grouped the rows: some column besides Collector Name is
\* left after the drop.
Aggregated == Merged /\ DurationColumns \cup OtherColumns # {}

\* The records of the result but the Summary Record.
AggregatedRecords ==
  IF DurationColumns \cup OtherColumns # {}
  THEN SubSeq(merged_df.rows, 1, Len(merged_df.rows) - 1)
  ELSE merged_df.rows

RecordsOfKey(k) ==
  { r \in 1..Len(AggregatedRecords) :
      AggregatedRecords[r][CollectorName] = Str(k) }

OneRecordWithSums ==
  \A k \in Keys :
    /\ Cardinality(RecordsOfKey(k)) = 1
    /\ \A r \in RecordsOfKey(k) : \A c \in DurationColumns :
         AggregatedRecords[r][c] = Num(SumSeconds(RowsOfKey(k), c))

(***************************************************************************)
(* C1 as stated: for every uploaded sequence of files and every identity   *)
(* key k of a row with a non-blank Collector Name, the result has exactly  *)
(* one aggregated record with identity k, whose duration columns hold the  *)
(* sum of time_to_seconds(cell) over all rows with identity k.             *)
(***************************************************************************)
C1_Original == Merged => OneRecordWithSums

(***************************************************************************)
(* C1 amended: the same, whenever merge_excel_files aggregates, that is    *)
(* whenever a column besides Collector Name is left after the drop.        *)
(***************************************************************************)
C1_SumPerIdentity == Aggregated => OneRecordWithSums

C1_Witness ==
  /\ Aggregated
  /\ \E k \in Keys : \E p, q \in RowsOfKey(k) :
       /\ p[1] # q[1]
       /\ "Talk Time" \in DurationColumns
       /\ SumSeconds(RowsOfKey(k), "Talk Time") = 690
       /\ \A r \in RecordsOfKey(k) : AggregatedRecords[r]["Talk Time"] = Num(690)

(***************************************************************************)
(* C2: whenever merge_excel_files aggregates, the last record is the       *)
(* Summary Record: Collector Name is Average, every duration column holds  *)
(* the sum of the group sums divided by the number of groups, every other  *)
(* column is empty, and the records before it are the aggregated records.  *)
(***************************************************************************)
SummaryRecord == merged_df.rows[Len(merged_df.rows)]

C2_SummaryRecord ==
  Aggregated =>
    /\ Len(merged_df.rows) = Cardinality(Keys) + 1
    /\ SummaryRecord[CollectorName] = Str(Average)
    /\ \A c \in DurationColumns :
         SummaryRecord[c] = IF Keys = {} THEN Nan
                            ELSE Frac(SumSeconds(Named, c), Cardinality(Keys))
    /\ \A c \in OtherColumns : SummaryRecord[c] = Nan
    /\ \A r \in 1..(Len(merged_df.rows) - 1) :
         /\ merged_df.rows[r][CollectorName].k = "str"
         /\ merged_df.rows[r][CollectorName].s \in Keys

C2_Witness ==
  /\ Aggregated
  /\ Cardinality(Keys) = 1
  /\ Cardinality(Named) = 2
  /\ "Talk Time" \in DurationColumns
  /\ SummaryRecord["Talk Time"] = Frac(1200, 1)

(***************************************************************************)
(* C5: no row whose Collector Name is null or whitespace-only contributes  *)
(* to the result: the result is the one the same files give with these     *)
(* rows deleted (no group, no part of a sum or of the group count, no      *)
(* first-seen value comes from them), and every other row is kept.         *)
(***************************************************************************)
WithoutBlankRows(file) ==
  [file EXCEPT !.rows =
     SelectSeq(file.rows,
               LAMBDA r : CollectorName \in Range(file.columns)
                            /\ HasText(r[CollectorName]))]

NamedFiles ==
  [i \in 1..Len(uploaded_files) |-> WithoutBlankRows(uploaded_files[i])]

AllReadable == \A i \in 1..Len(uploaded_files) : uploaded_files[i].readable

Processed == uploaded_files # <<>>

C6_Outcomes ==
  /\ pc = "ready"
  /\ Processed => (merged_df = None) # (error = None)
  /\ \A ignore_empty \in BOOLEAN :
       merge_excel_files(<<>>, ignore_empty) =
         Outcome(None, Message("No valid Excel files uploaded."))
  /\ Processed /\ ~AllReadable => error = Message("Error merging files")
  /\ Processed /\ AllReadable /\ CollectorName \notin InputColumns =>
       error = Message("Collector Name column not found in the data.")
  /\ error # None => merged_df = None /\ preview = None /\ export = None
  /\ merged_df # None => preview # None /\ export # None
  /\ ENABLED Clear \/ uploaded_files = <<>>

C6_Witness ==
  /\ pc = "ready"
  /\ Len(uploaded_files) = 2
  /\ uploaded_files[1].readable
  /\ ~uploaded_files[2].readable
  /\ error = Message("Error merging files")
  /\ merged_df = None
  /\ preview = None
  /\ export = None

(***************************************************************************)
(* C7 as stated: the aggregated records appear in the order in which their *)
(* identity keys are first met in the uploaded rows.                       *)
(***************************************************************************)
C7_Original ==
  Aggregated =>
    \A a, b \in Keys :
      Before(FirstOfKey(a), FirstOfKey(b)) =>
        \A i \in RecordsOfKey(a), j \in RecordsOfKey(b) : i < j

(***************************************************************************)
(* C7 amended: the aggregated records appear in ascending order of their   *)
(* identity key (the order of the code points), whatever the order of the  *)
(* uploaded rows.                                                          *)
(***************************************************************************)
C7_AscendingKeys ==
  Aggregated =>
    \A i, j \in 1..Len(AggregatedRecords) :
      i < j => LexLess(AggregatedRecords[i][CollectorName].s,
                       AggregatedRecords[j][CollectorName].s)

C7_Witness ==
  /\ Aggregated
  /\ Keys = {<<"a">>, <<"b">>}
  /\ Before(FirstOfKey(<<"b">>), FirstOfKey(<<"a">>))
  /\ AggregatedRecords[1][CollectorName] = Str(<<"a">>)
  /\ AggregatedRecords[2][CollectorName] = Str(<<"b">>)

(***************************************************************************)
(* C8: for every identity group and every column that is neither a         *)
(* duration column nor Collector Name, the aggregated record holds the     *)
(* value of the column in the first record of the group, also when that    *)
(* value is empty and a later record of the group has a value.             *)
(***************************************************************************)
C8_FirstRecordWins ==
  Aggregated =>
    \A k \in Keys : \A r \in RecordsOfKey(k) : \A c \in OtherColumns :
      AggregatedRecords[r][c] = InCell(FirstOfKey(k), c)

C10_SummaryAlone ==
  (/\ Processed
   /\ AllReadable
   /\ CollectorName \in InputColumns
   /\ Named = {}) =>
    /\ error = None
    /\ merged_df # None
    /\ Len(merged_df.rows) = 1
    /\ merged_df.rows[1][CollectorName] = Str(Average)

(***************************************************************************)
(* The codec on its own: an input value is decoded, the seconds are        *)
(* encoded as text, and the text is decoded again.  A text input is the    *)
(* colon-join of parts taken from PartTable; given records the parts, with *)
(* the integer each part stands for (ok = FALSE: not an integer).          *)
(***************************************************************************)
Part(t, ok, val) == [txt |-> t, ok |-> ok, val |-> val]

PartTable ==
  { Part(<<"0">>, TRUE, 0), Part(<<"1", "0">>, TRUE, 10),
    Part(<<"0", "5">>, TRUE, 5), Part(<<" ", "7", " ">>, TRUE, 7),
    Part(<<"2", "5">>, TRUE, 25), Part(<<"-", "1">>, TRUE, 0 - 1),
    Part(<<>>, FALSE, 0), Part(<<"1", " ", "x">>, FALSE, 0) }

PartSeqs == UNION { [1..len -> PartTable] : len \in 1..MaxParts }

RECURSIVE Join(_)
Join(ps) ==
  IF Len(ps) = 1 THEN ps[1].txt
  ELSE ps[1].txt \o <<":">> \o Join(Tail(ps))

OtherInputs == {Nan, Obj, Num(0), Num(90), Num(3661), Num(90000), Num(0 - 5)}

CodecInit ==
  /\ MergeIdle
  /\ cpc = "start"
  /\ \/ time_val \in OtherInputs /\ given = <<>>
     \/ \E ps \in PartSeqs : time_val = Str(Join(ps)) /\ given = ps
  /\ seconds = NoOutcome
  /\ text = <<>>
  /\ seconds2 = NoOutcome

\* seconds = time_to_seconds(time_val)
Decode ==
  /\ cpc = "start"
  /\ seconds' = time_to_seconds(time_val)
  /\ cpc' = "decoded"
  /\ UNCHANGED <<time_val, given, text, seconds2>>
  /\ UNCHANGED mergeVars

\* text = seconds_to_time(seconds)
Encode ==
  /\ cpc = "decoded"
  /\ ~seconds.exc
  /\ text' = seconds_to_time(Num(seconds.ret))
  /\ cpc' = "encoded"
  /\ UNCHANGED <<time_val, given, seconds, seconds2>>
  /\ UNCHANGED mergeVars

\* seconds2 = time_to_seconds(text)
Redecode ==
  /\ cpc = "encoded"
  /\ seconds2' = time_to_seconds(Str(text))
  /\ cpc' = "done"
  /\ UNCHANGED <<time_val, given, seconds, text>>
  /\ UNCHANGED mergeVars

CodecNext == Decode \/ Encode \/ Redecode

SpecCodec == CodecInit /\ [][CodecNext]_vars

(***************************************************************************)
(* C3: time_to_seconds never raises; it returns 0 for a missing value, for *)
(* the empty string, for a text whose number of colon-separated parts is   *)
(* not 2 or 3 and for a text with a part that is not an integer; for       *)
(* h:m:s it returns h*3600 + m*60 + s and for m:s it returns m*60 + s,     *)
(* the parts being trimmed of whitespace.                                  *)
(***************************************************************************)
AllOk(ps) == \A i \in 1..Len(ps) : ps[i].ok

ExpectedSeconds(ps) ==
  IF Len(ps) = 3 /\ AllOk(ps)
  THEN ps[1].val * 3600 + ps[2].val * 60 + ps[3].val
  ELSE IF Len(ps) = 2 /\ AllOk(ps) THEN ps[1].val * 60 + ps[2].val
  ELSE 0

C3_DecodeTotal ==
  cpc # "start" =>
    /\ ~seconds.exc
    /\ time_val.k = "nan" => seconds.ret = 0
    /\ time_val.k = "str" => seconds.ret = ExpectedSeconds(given)

C3_Witness ==
  /\ cpc = "decoded"
  /\ time_val.k = "str"
  /\ Len(given) = 3
  /\ ~given[2].ok
  /\ seconds.ret = 0

(***************************************************************************)
(* C4: for every valid H:MM:SS or MM:SS text s,                            *)
(* time_to_seconds(seconds_to_time(time_to_seconds(s))) =                  *)
(* time_to_seconds(s), also for values of 24 hours or more.                *)
(***************************************************************************)
ValidText == time_val.k = "str" /\ Len(given) \in {2, 3} /\ AllOk(given)

C4_RoundTrip == (cpc = "done" /\ ValidText) => seconds2 = seconds

C4_Witness ==
  /\ cpc = "done"
  /\ ValidText
  /\ seconds.ret >= 86400
  /\ seconds2 = seconds

=============================================================================
